---- MODULE Spec2Model ----
(***************************************************************************)
(* Simple_Messager: the service layer (flaskr/services), the repositories  *)
(* (flaskr/repositories) and the entities (flaskr/models) over one         *)
(* relational store with the tables user and email.                        *)
(*                                                                         *)
(* Every handler runs to completion inside one request, so each handler    *)
(* is one action.  A handler is written as an operator from the store and  *)
(* the request to its outcome; an exception is a record whose field exc    *)
(* names the Python exception class ("" when nothing was raised).          *)
(***************************************************************************)
EXTENDS Integers, Sequences, FiniteSets, TLC

VARIABLES user, email, next_id, now, req, resp, deleted, inflight

\* user, email: the tables; next_id, now: the store's id sequence and clock;
\* req, resp: the request being served and its response; deleted: the ids
\* whose DELETE has succeeded (history); inflight: the requests of the
\* server's threads that are served concurrently
vars == <<user, email, next_id, now, req, resp, deleted, inflight>>

(***************************************************************************)
(* Bounds of the model.                                                    *)
(***************************************************************************)
\* rows the email table is given in one behaviour (caps the id sequence)
MaxEmails == 2
\* last value of the store's clock
MaxClock == 1

\* the start / stop indices a request may carry: -1 .. MaxIndex
MinIndex == 0 - 1
MaxIndex == MaxEmails

(***************************************************************************)
(* Python values, as far as the handlers look at them: their type, and     *)
(* the integer or the string they hold.  Absent is a key that the JSON     *)
(* body or the query string does not carry.                                *)
(***************************************************************************)
PyNone == [type |-> "NoneType", i |-> 0, s |-> ""]

PyInt(n) == [type |-> "int", i |-> n, s |-> ""]

PyStr(t) == [type |-> "str", i |-> 0, s |-> t]

Absent == [type |-> "absent", i |-> 0, s |-> ""]

\* Python truthiness: `not v` is ~Truthy(v)
Truthy(v) ==
    \/ v.type = "str" /\ v.s # ""
    \/ v.type = "int" /\ v.i # 0

\* isinstance(v, int)
IsInt(v) == v.type = "int"

\* dict.get(key, default)
DictGet(v, default) == IF v = Absent THEN default ELSE v

(***************************************************************************)
(* Exceptions and results.                                                 *)
(***************************************************************************)
NoCalls == <<>>

Call(fn, limit, offset) == [fn |-> fn, limit |-> limit, offset |-> offset]

\* a call that returned val
Return(val) == [exc |-> "", msg |-> "", val |-> val]

\* a call that raised exc(msg)
Raise(exc, msg) == [exc |-> exc, msg |-> msg, val |-> PyNone]

Response(status, error, emails, calls) ==
    [status |-> status, error |-> error, emails |-> emails, calls |-> calls]

(***************************************************************************)
(* The query string of GET /emails.  A value of the query string is text;  *)
(* start and stop are read with type=int, which converts the text with     *)
(* int() and falls back to the default when int() raises ValueError.       *)
(***************************************************************************)
NoArg == [present |-> FALSE, text |-> <<>>]

Arg(text) == [present |-> TRUE, text |-> text]

DigitChars == <<"0", "1", "2", "3", "4", "5", "6", "7", "8", "9">>

IsDigit(c) == \E d \in 1..10 : DigitChars[d] = c

DigitVal(c) == (CHOOSE d \in 1..10 : DigitChars[d] = c) - 1

RECURSIVE DigitsVal(_)
DigitsVal(t) ==
    IF t = <<>> THEN 0
    ELSE 10 * DigitsVal(SubSeq(t, 1, Len(t) - 1)) + DigitVal(t[Len(t)])

AllDigits(t) == Len(t) >= 1 /\ \A k \in 1..Len(t) : IsDigit(t[k])

\* int(text) succeeds: an optional sign, then decimal digits
IsIntText(t) ==
    /\ Len(t) >= 1
    /\ IF t[1] \in {"-", "+"} THEN AllDigits(Tail(t)) ELSE AllDigits(t)

\* int(text), where it succeeds
ParseInt(t) ==
    IF t[1] = "-" THEN 0 - DigitsVal(Tail(t))
    ELSE IF t[1] = "+" THEN DigitsVal(Tail(t))
    ELSE DigitsVal(t)

\* request.args.get(key, default=None, type=int)
ArgsGetInt(a) ==
    IF a.present /\ IsIntText(a.text) THEN PyInt(ParseInt(a.text)) ELSE PyNone

\* request.args.get(key)
ArgsGet(v) == DictGet(v, PyNone)

\* the decimal text of an integer, as a client writes it into the query string
RECURSIVE NatText(_)
NatText(n) ==
    IF n < 10 THEN <<DigitChars[n + 1]>>
    ELSE NatText(n \div 10) \o <<DigitChars[(n % 10) + 1]>>

IntText(n) == IF n < 0 THEN <<"-">> \o NatText(0 - n) ELSE NatText(n)

(***************************************************************************)
(* The store.  A row of user is [username, password]; a row of email is    *)
(* [id, message_subject, body, sender_username, recipient_username,        *)
(* created_at].  The schema gives id from the table's sequence and         *)
(* created_at from the store's clock at insert time.                       *)
(***************************************************************************)
\* the id the store gives the next inserted email
NewId == next_id

\* the created_at the store gives a row inserted now
CurrentTimestamp == now

\* every order in which the rows of a result set can be listed
RECURSIVE Orderings(_)
Orderings(rows) ==
    IF rows = {} THEN {<<>>}
    ELSE UNION {{<<r>> \o o : o \in Orderings(rows \ {r})} : r \in rows}

\* ORDER BY created_at ASC
OrderByCreatedAtAsc(rows) ==
    {o \in Orderings(rows) :
        \A a, b \in 1..Len(o) : a < b => o[a].created_at <= o[b].created_at}

\* ORDER BY created_at DESC: rows of equal created_at come in any order
OrderByCreatedAtDesc(rows) ==
    {o \in Orderings(rows) :
        \A a, b \in 1..Len(o) : a < b => o[a].created_at >= o[b].created_at}

\* the WHERE clause is left out
AnyRecipient(recipient_username) == email

\* WHERE recipient_username = ?
WhereRecipient(recipient_username) ==
    {e \in email : recipient_username.type = "str"
                   /\ e.recipient_username = recipient_username.s}

\* LIMIT read as the index of the last row instead of a count of rows
LimitAsLastIndex(o, limit, offset) ==
    LET first == (IF offset < 0 THEN 0 ELSE offset) + 1
        last  == IF limit < 0 \/ limit > Len(o) THEN Len(o) ELSE limit
    IN  SubSeq(o, first, last)

\* LIMIT ? OFFSET ?: a negative LIMIT is no limit, a negative OFFSET is 0
LimitOffset(o, limit, offset) ==
    LET first == (IF offset < 0 THEN 0 ELSE offset) + 1
        last  == IF limit < 0 \/ first + limit - 1 > Len(o)
                 THEN Len(o) ELSE first + limit - 1
    IN  SubSeq(o, first, last)

(***************************************************************************)
(* UserRepository                                                          *)
(***************************************************************************)
user_exists(username) ==
    \E u \in user : username.type = "str" /\ u.username = username.s

(***************************************************************************)
(* EmailRepository: the two inbox queries.  Each gives the set of the      *)
(* sequences the store may return.                                         *)
(***************************************************************************)
get_all_emails_to_user(recipient_username) ==
    OrderByCreatedAtDesc(WhereRecipient(recipient_username))

get_indexed_emails_to_user(limit, offset, recipient_username) ==
    {LimitOffset(o, limit, offset) :
        o \in OrderByCreatedAtDesc(WhereRecipient(recipient_username))}

(***************************************************************************)
(* EmailServices: GET /emails                                              *)
(***************************************************************************)
\* the recipient_username is not checked
fetch_get_args_unchecked_recipient(request) ==
    LET start == ArgsGetInt(request.start)
        stop  == ArgsGetInt(request.stop)
        recipient_username == ArgsGet(request.recipient_username)
    IN  IF start # PyNone /\ ~IsInt(start)
        THEN Raise("ValueError", "Invalid value for 'start'. Must be an integer.")
        ELSE IF stop # PyNone /\ ~IsInt(stop)
        THEN Raise("ValueError", "Invalid value for 'stop'. Must be an integer.")
        ELSE Return([start |-> start, stop |-> stop,
                     recipient_username |-> recipient_username])

fetch_get_args(request) ==
    LET start == ArgsGetInt(request.start)
        stop  == ArgsGetInt(request.stop)
        recipient_username == ArgsGet(request.recipient_username)
    IN  IF start # PyNone /\ ~IsInt(start)
        THEN Raise("ValueError", "Invalid value for 'start'. Must be an integer.")
        ELSE IF stop # PyNone /\ ~IsInt(stop)
        THEN Raise("ValueError", "Invalid value for 'stop'. Must be an integer.")
        ELSE IF ~Truthy(recipient_username) \/ recipient_username.type # "str"
        THEN Raise("ValueError",
                   "Invalid value for 'recipient_username'. Must be a string.")
        ELSE Return([start |-> start, stop |-> stop,
                     recipient_username |-> recipient_username])

\* the user is not looked up
is_valid_user_unchecked(username) == Return(PyNone)

is_valid_user(username) ==
    IF ~user_exists(username)
    THEN Raise("LookupError", "User not found in database.")
    ELSE Return(PyNone)

\* the limit counts the stop index in
get_limit_and_offset_inclusive(start_index, stop_index) ==
    IF IsInt(start_index) /\ IsInt(stop_index) /\ stop_index.i > start_index.i
    THEN Return([limit |-> stop_index.i - start_index.i + 1,
                 offset |-> start_index.i])
    ELSE Raise("ValueError", "Invalid start or stop index")

\* stop_index >= start_index in place of stop_index > start_index
get_limit_and_offset_allows_equal(start_index, stop_index) ==
    IF IsInt(start_index) /\ IsInt(stop_index) /\ stop_index.i >= start_index.i
    THEN Return([limit |-> stop_index.i - start_index.i, offset |-> start_index.i])
    ELSE Raise("ValueError", "Invalid start or stop index")

get_limit_and_offset(start_index, stop_index) ==
    IF IsInt(start_index) /\ IsInt(stop_index) /\ stop_index.i > start_index.i
    THEN Return([limit |-> stop_index.i - start_index.i, offset |-> start_index.i])
    ELSE Raise("ValueError", "Invalid start or stop index")

\* the outcome, the sequences the repository may return, and the calls made
retrieve_emails(start, stop, recipient_username) ==
    IF start # PyNone /\ stop # PyNone
    THEN LET lo == get_limit_and_offset(start, stop)
         IN  IF lo.exc # ""
             THEN [exc |-> lo.exc, msg |-> lo.msg, results |-> {<<>>},
                   calls |-> NoCalls]
             ELSE [exc |-> "", msg |-> "",
                   results |-> get_indexed_emails_to_user(
                                   lo.val.limit, lo.val.offset, recipient_username),
                   calls |-> <<Call("get_indexed_emails_to_user",
                                    lo.val.limit, lo.val.offset)>>]
    ELSE [exc |-> "", msg |-> "",
          results |-> get_all_emails_to_user(recipient_username),
          calls |-> <<Call("get_all_emails_to_user", 0, 0)>>]

\* except ValueError: 400; except LookupError: 404; except Exception: 500
GetEmailsError(exc, msg, calls) ==
    IF exc = "ValueError" THEN Response(400, msg, <<>>, calls)
    ELSE IF exc = "LookupError" THEN Response(404, msg, <<>>, calls)
    ELSE Response(500, "An error occurred while fetching emails.", <<>>, calls)

\* the responses handle_get_emails may give to request
handle_get_emails(request) ==
    LET args == fetch_get_args(request)
    IN  IF args.exc # ""
        THEN {GetEmailsError(args.exc, args.msg, NoCalls)}
        ELSE LET valid == is_valid_user(args.val.recipient_username)
                 checked == <<Call("user_exists", 0, 0)>>
             IN  IF valid.exc # ""
                 THEN {GetEmailsError(valid.exc, valid.msg, checked)}
                 ELSE LET got == retrieve_emails(args.val.start, args.val.stop,
                                                 args.val.recipient_username)
                      IN  IF got.exc # ""
                          THEN {GetEmailsError(got.exc, got.msg, checked \o got.calls)}
                          ELSE {Response(200, "", emails, checked \o got.calls) :
                                    emails \in got.results}

(***************************************************************************)
(* Email entity                                                            *)
(***************************************************************************)
\* Email.__init__(db, message_subject, body, sender_username, recipient_username)
Email(db, message_subject, body, sender_username, recipient_username) ==
    IF \/ ~Truthy(message_subject) \/ ~Truthy(body)
       \/ ~Truthy(sender_username) \/ ~Truthy(recipient_username)
    THEN Raise("ValueError", "All fields must be provided")
    ELSE Return([db |-> db, message_subject |-> message_subject, body |-> body,
                 sender_username |-> sender_username,
                 recipient_username |-> recipient_username])

\* the bounds of Email.is_valid
MaxSubjectLen == 255

MaxBodyLen == 5000

\* Email.is_valid(), of an entity the constructor has built
is_valid(e) ==
    IF ~Truthy(e.message_subject) \/ ~Truthy(e.body)
    THEN Raise("ValueError", "Subject and body cannot be empty.")
    ELSE IF Len(e.message_subject.s) > MaxSubjectLen
    THEN Raise("ValueError", "Subject cannot exceed 255 characters.")
    ELSE IF Len(e.body.s) > MaxBodyLen
    THEN Raise("ValueError", "Body cannot exceed 5000 characters.")
    ELSE Return(PyInt(1))

\* INSERT INTO email (message_subject, body, sender_username, recipient_username)
InsertEmail(e) ==
    email \cup {[id |-> NewId,
                 message_subject |-> e.message_subject.s,
                 body |-> e.body.s,
                 sender_username |-> e.sender_username.s,
                 recipient_username |-> e.recipient_username.s,
                 created_at |-> CurrentTimestamp]}

(***************************************************************************)
(* EmailServices: POST /emails                                             *)
(***************************************************************************)
fetch_send_args(data) ==
    [message_subject |-> DictGet(data.message_subject, PyStr("")),
     body |-> DictGet(data.body, PyStr("")),
     sender_username |-> DictGet(data.sender_username, PyStr("")),
     recipient_username |-> DictGet(data.recipient_username, PyStr(""))]

validate_send_args(message_subject, sender_username, recipient_username) ==
    IF ~Truthy(message_subject)
    THEN Raise("ValueError", "Message subject cannot be empty.")
    ELSE IF ~Truthy(sender_username)
    THEN Raise("ValueError", "The email must have a sender.")
    ELSE IF ~Truthy(recipient_username)
    THEN Raise("ValueError", "The email must have a recipient.")
    ELSE Return(PyNone)

\* the recipient is looked up first, the sender only when the recipient exists
check_valid_users_recipient_only(recipient_username, sender_username) ==
    IF ~user_exists(recipient_username)
    THEN [exc |-> "LookupError",
          msg |-> "The recipient does not exist in the database.",
          calls |-> <<Call("user_exists", 0, 0)>>]
    ELSE [exc |-> "", msg |-> "", calls |-> <<Call("user_exists", 0, 0)>>]

check_valid_users(recipient_username, sender_username) ==
    IF ~user_exists(recipient_username)
    THEN [exc |-> "LookupError",
          msg |-> "The recipient does not exist in the database.",
          calls |-> <<Call("user_exists", 0, 0)>>]
    ELSE IF ~user_exists(sender_username)
    THEN [exc |-> "LookupError",
          msg |-> "The sender does not exist in the database.",
          calls |-> <<Call("user_exists", 0, 0), Call("user_exists", 0, 0)>>]
    ELSE [exc |-> "", msg |-> "",
          calls |-> <<Call("user_exists", 0, 0), Call("user_exists", 0, 0)>>]

\* Email(message_subject, body, sender_username, recipient_username): the four
\* values are passed by position, so they bind to the constructor's first four
\* parameters (db, message_subject, body, sender_username) and
\* recipient_username keeps its default, None
create_email(json_data) ==
    LET a == fetch_send_args(json_data)
        v == validate_send_args(a.message_subject, a.sender_username,
                                a.recipient_username)
    IN  IF v.exc # ""
        THEN [exc |-> v.exc, msg |-> v.msg, val |-> PyNone, calls |-> NoCalls]
        ELSE LET u == check_valid_users(a.recipient_username, a.sender_username)
             IN  IF u.exc # ""
                 THEN [exc |-> u.exc, msg |-> u.msg, val |-> PyNone,
                       calls |-> u.calls]
                 ELSE LET e == Email(a.message_subject, a.body, a.sender_username,
                                     a.recipient_username, PyNone)
                      IN  [exc |-> e.exc, msg |-> e.msg, val |-> e.val,
                           calls |-> u.calls]

\* except ValueError: 400; except LookupError: 404;
\* except Exception as e: "An unexpected error occurred: {str(e)}", 500
SendEmailError(exc, msg, calls) ==
    IF exc = "ValueError" THEN Response(400, msg, <<>>, calls)
    ELSE IF exc = "LookupError" THEN Response(404, msg, <<>>, calls)
    ELSE Response(500, "An unexpected error occurred: " \o msg, <<>>, calls)

\* the response, and the email table and the id sequence after the call
handle_send_email(json_data) ==
    LET c == create_email(json_data)
    IN  IF c.exc # ""
        THEN [resp |-> SendEmailError(c.exc, c.msg, c.calls),
              email |-> email, next_id |-> next_id]
        ELSE [resp |-> Response(201, "", <<>>,
                                c.calls \o <<Call("send_email", 0, 0)>>),
              email |-> InsertEmail(c.val), next_id |-> next_id + 1]

(***************************************************************************)
(* EmailServices: GET /emails/<id>                                         *)
(***************************************************************************)
\* the row of SELECT 1: one column that holds 1
SelectOne == [one |-> 1]

\* SELECT 1 FROM email WHERE id = ? ... fetchone(): the row (1,), or None
get_email(email_id) ==
    IF \E e \in email : email_id.type = "int" /\ e.id = email_id.i
    THEN Return(SelectOne)
    ELSE Return(PyNone)

check_email_id(email_id) ==
    IF email_id = PyNone
    THEN Raise("ValueError", "Email ID cannot be None.")
    ELSE IF email_id.type # "int"
    THEN Raise("ValueError", "Email ID must be an integer.")
    ELSE IF email_id.i < 0
    THEN Raise("ValueError", "Email ID must be larger than 0.")
    ELSE Return(PyNone)

\* _get_email
get_email_or_raise(email_id) ==
    LET response == get_email(email_id).val
    IN  IF response = PyNone
        THEN Raise("LookupError",
                   "The email with the provided ID could not be found.")
        ELSE Return(response)

\* return {"email": self._get_email(email_id)}, 201
handle_get_email(email_id) ==
    LET c == check_email_id(email_id)
    IN  IF c.exc # ""
        THEN Response(400, c.msg, <<>>, NoCalls)
        ELSE LET g == get_email_or_raise(email_id)
                 calls == <<Call("get_email", 0, 0)>>
             IN  IF g.exc # ""
                 THEN Response(404, g.msg, <<>>, calls)
                 ELSE Response(201, "", <<g.val>>, calls)

(***************************************************************************)
(* EmailServices: DELETE /emails                                           *)
(***************************************************************************)
\* SELECT 1 FROM email WHERE id = ?
email_exists(email_id) ==
    \E e \in email : email_id.type = "int" /\ e.id = email_id.i

\* the DELETE reports its row but leaves it in the table
delete_email_keeps_row(id) ==
    LET hit == {e \in email : id.type = "int" /\ e.id = id.i}
    IN  [email |-> email, rowcount |-> Cardinality(hit)]

\* DELETE FROM email WHERE id = ?: the table left, and the rowcount
delete_email(id) ==
    LET hit == {e \in email : id.type = "int" /\ e.id = id.i}
    IN  [email |-> email \ hit, rowcount |-> Cardinality(hit)]

\* the rowcount is not looked at
delete_email_from_db_ignores_rowcount(email_id) ==
    [exc |-> "", msg |-> "", email |-> delete_email(email_id).email,
     rowcount |-> delete_email(email_id).rowcount]

\* _delete_email_from_db: the table left, and the error raised if no row went
delete_email_from_db(email_id) ==
    LET d == delete_email(email_id)
    IN  IF d.rowcount <= 0
        THEN [exc |-> "ValueError", msg |-> "The email could not be deleted.",
              email |-> d.email, rowcount |-> d.rowcount]
        ELSE [exc |-> "", msg |-> "", email |-> d.email, rowcount |-> d.rowcount]

\* the email is not looked up
validate_email_exists_unchecked(email_id) == Return(PyNone)

validate_email_exists(email_id) ==
    IF ~email_exists(email_id)
    THEN Raise("LookupError", "Email with ID not found in database.")
    ELSE Return(PyNone)

\* the id is checked as GET /emails/<id> checks it, before the lookup
handle_delete_email_checks_id(email_id) ==
    LET c == check_email_id(email_id)
    IN  [resp |-> IF c.exc # "" THEN Response(400, c.msg, <<>>, NoCalls)
                  ELSE Response(404, "Email with ID not found in database.",
                                <<>>, <<Call("email_exists", 0, 0)>>),
         email |-> email]

\* the error is raised although one row was deleted
handle_delete_email_raises_after_delete(email_id) ==
    LET v == validate_email_exists(email_id)
        checked == <<Call("email_exists", 0, 0)>>
    IN  IF v.exc # ""
        THEN [resp |-> Response(404, v.msg, <<>>, checked), email |-> email]
        ELSE [resp |-> Response(400, "The email could not be deleted.", <<>>,
                                checked \o <<Call("delete_email", 0, 0)>>),
              email |-> delete_email(email_id).email]

handle_delete_email(email_id) ==
    LET v == validate_email_exists(email_id)
        checked == <<Call("email_exists", 0, 0)>>
    IN  IF v.exc # ""
        THEN [resp |-> Response(404, v.msg, <<>>, checked), email |-> email]
        ELSE LET d == delete_email(email_id)
                 calls == checked \o <<Call("delete_email", 0, 0)>>
             IN  IF d.rowcount <= 0
                 THEN [resp |-> Response(400, "The email could not be deleted.",
                                         <<>>, calls),
                       email |-> d.email]
                 ELSE [resp |-> Response(200, "", <<>>, calls), email |-> d.email]

(***************************************************************************)
(* UserServices: POST /register                                            *)
(***************************************************************************)
\* the user table's primary key is username
PrimaryKeyConflict(username) == \E u \in user : u.username = username

\* INSERT INTO user (username, password): the table left, and the rowcount
register_user(u) ==
    IF PrimaryKeyConflict(u.username.s)
    THEN [exc |-> "IntegrityError", user |-> user, rowcount |-> 0]
    ELSE [exc |-> "",
          user |-> user \cup {[username |-> u.username.s,
                               password |-> u.password.s]},
          rowcount |-> 1]

\* data["username"], data["password"]
fetch_register_args(data) ==
    IF data.username = Absent
    THEN Raise("KeyError", "Missing required field: 'username'")
    ELSE IF data.password = Absent
    THEN Raise("KeyError", "Missing required field: 'password'")
    ELSE Return([username |-> data.username, password |-> data.password])

\* len(v) < 2, where len() is defined
TooShort(v) == v.type = "str" /\ Len(v.s) < 2

check_username_validity(username) ==
    IF ~Truthy(username)
    THEN Raise("ValueError", "A user must have a username.")
    ELSE IF username.type # "str"
    THEN Raise("TypeError", "object has no len()")
    ELSE IF TooShort(username)
    THEN Raise("ValueError", "Username must be at least 2 characters long.")
    ELSE Return(PyNone)

check_password_validity(password) ==
    IF ~Truthy(password)
    THEN Raise("ValueError", "A user must have a password.")
    ELSE IF password.type # "str"
    THEN Raise("TypeError", "object has no len()")
    ELSE IF TooShort(password)
    THEN Raise("ValueError", "The password must be at least 2 characters long.")
    ELSE Return(PyNone)

\* the username is never looked up
check_user_validity_no_lookup(username, password) ==
    LET n == check_username_validity(username)
        p == check_password_validity(password)
    IN  IF n.exc # "" THEN [exc |-> n.exc, msg |-> n.msg, calls |-> NoCalls]
        ELSE IF p.exc # "" THEN [exc |-> p.exc, msg |-> p.msg, calls |-> NoCalls]
        ELSE [exc |-> "", msg |-> "", calls |-> NoCalls]

check_user_validity(username, password) ==
    LET n == check_username_validity(username)
        p == check_password_validity(password)
    IN  IF n.exc # "" THEN [exc |-> n.exc, msg |-> n.msg, calls |-> NoCalls]
        ELSE IF p.exc # "" THEN [exc |-> p.exc, msg |-> p.msg, calls |-> NoCalls]
        ELSE IF user_exists(username)
        THEN [exc |-> "ValueError", msg |-> "Username already exists.",
              calls |-> <<Call("user_exists", 0, 0)>>]
        ELSE [exc |-> "", msg |-> "", calls |-> <<Call("user_exists", 0, 0)>>]

\* User(username, password), after the arguments were fetched and checked
create_user(data) ==
    LET a == fetch_register_args(data)
    IN  IF a.exc # ""
        THEN [exc |-> a.exc, msg |-> a.msg, val |-> PyNone, calls |-> NoCalls]
        ELSE LET c == check_user_validity(a.val.username, a.val.password)
             IN  [exc |-> c.exc, msg |-> c.msg, calls |-> c.calls,
                  val |-> [username |-> a.val.username,
                           password |-> a.val.password]]

\* except ValueError: 400; except KeyError: 400; except Exception: 500
RegisterError(exc, msg, calls) ==
    IF exc \in {"ValueError", "KeyError"} THEN Response(400, msg, <<>>, calls)
    ELSE Response(500, "There was an error when registering a user.", <<>>, calls)

\* the response, and the user table after the call
handle_register_user(data) ==
    LET c == create_user(data)
    IN  IF c.exc # ""
        THEN [resp |-> RegisterError(c.exc, c.msg, c.calls), user |-> user]
        ELSE LET r == register_user(c.val)
                 calls == c.calls \o <<Call("register_user", 0, 0)>>
             IN  IF r.exc # ""
                 THEN [resp |-> RegisterError(r.exc, "", calls), user |-> r.user]
                 ELSE IF r.rowcount <= 0
                 THEN [resp |-> RegisterError("ValueError",
                                              "Could not register user.", calls),
                       user |-> r.user]
                 ELSE [resp |-> Response(201, "", <<>>, calls), user |-> r.user]

(***************************************************************************)
(* Store failures.  A repository call runs db.execute() and db.commit(),   *)
(* which raise sqlite3.OperationalError when the store fails.  Every       *)
(* repository call of a handler is made inside the handler's try block, so *)
(* the handler's except clauses decide what becomes of the exception.  The *)
(* k-th repository call of the handler is the one that raises: the calls   *)
(* before it were made as usual, no later call is made, and a statement    *)
(* that failed has written nothing.                                        *)
(***************************************************************************)
StoreError == [exc |-> "OperationalError", msg |-> "database is locked"]

\* the repository calls made when the k-th of calls raises
CallsUntil(calls, k) == SubSeq(calls, 1, k)

\* no except clause takes the exception: the handler returns no (body, status)
Escapes(exc, msg, calls) == Response(0, msg, <<>>, calls)

\* handle_get_emails: except Exception
handle_get_emails_store_error(request, k) ==
    {GetEmailsError(StoreError.exc, StoreError.msg, CallsUntil(r.calls, k)) :
         r \in {n \in handle_get_emails(request) : k <= Len(n.calls)}}

\* handle_get_email: except ValueError, except LookupError, and no more
handle_get_email_store_error(email_id, k) ==
    Escapes(StoreError.exc, StoreError.msg,
            CallsUntil(handle_get_email(email_id).calls, k))

\* handle_send_email: except Exception as e
handle_send_email_store_error(json_data, k) ==
    [resp |-> SendEmailError(StoreError.exc, StoreError.msg,
                             CallsUntil(handle_send_email(json_data).resp.calls, k)),
     email |-> email, next_id |-> next_id]

\* handle_delete_email: except Exception as e
handle_delete_email_store_error(email_id, k) ==
    [resp |-> Response(500, "An unexpected error occurred: " \o StoreError.msg,
                       <<>>,
                       CallsUntil(handle_delete_email(email_id).resp.calls, k)),
     email |-> email]

\* handle_register_user: except Exception
handle_register_user_store_error(data, k) ==
    [resp |-> RegisterError(StoreError.exc, StoreError.msg,
                            CallsUntil(handle_register_user(data).resp.calls, k)),
     user |-> user]

(***************************************************************************)
(* Requests.  The values a client sends are drawn from small sets that     *)
(* hold an absent key, null, the empty string, a string that is too short, *)
(* and two usernames that may or may not be registered.                    *)
(***************************************************************************)
NoRequest ==
    [op |-> "none", start |-> NoArg, stop |-> NoArg,
     recipient_username |-> Absent, message_subject |-> Absent, body |-> Absent,
     sender_username |-> Absent, username |-> Absent, password |-> Absent,
     email_id |-> Absent, fails |-> 0]

NoResponse == Response(0, "", <<>>, NoCalls)

Usernames == {"u1", "u2"}

RegisterUsernames == {Absent, PyNone, PyStr(""), PyStr("a")}
                         \cup {PyStr(u) : u \in Usernames}

RegisterPasswords == {Absent, PyStr(""), PyStr("p"), PyStr("pw"), PyStr("qq")}

IndexArgs == {NoArg, Arg(<<"x">>)}
                 \cup {Arg(IntText(n)) : n \in MinIndex..MaxIndex}

Recipients == {Absent, PyStr("")} \cup {PyStr(u) : u \in Usernames}

\* a subject of 256 characters
LongSubject ==
    "ssssssssssssssssssssssssssssssssssssssssssssssssssssssssssssssssssssssssssssssssssssssssssssssssssssssssssssssssssssssssssssssssssssssssssssssssssssssssssssssssssssssssssssssssssssssssssssssssssssssssssssssssssssssssssssssssssssssssssssssssssssssssssssssss"

Subjects == {Absent, PyStr("Hi"), PyStr(LongSubject)}

Bodies == {PyStr(""), PyStr("Yo")}

Senders == {PyStr("")} \cup {PyStr(u) : u \in Usernames}

EmailIds == {PyNone, PyStr("x")} \cup {PyInt(n) : n \in MinIndex..MaxEmails}

\* the server's threads
Workers == {1, 2}

\* a thread that serves no request
NoWork == [pc |-> "idle", op |-> "none", email_id |-> Absent,
           username |-> Absent, password |-> Absent,
           status |-> 0, error |-> "", rowcount |-> 0]

(***************************************************************************)
(* Actions                                                                 *)
(***************************************************************************)
Init ==
    /\ user = {}
    /\ email = {}
    /\ next_id = 1
    /\ now = 0
    /\ req = NoRequest
    /\ resp = NoResponse
    /\ deleted = {}
    /\ inflight = [w \in Workers |-> NoWork]

\* no request is being served
Idle == req.op = "none"

\* the store's clock advances
Tick ==
    /\ Idle
    /\ now < MaxClock
    /\ now' = now + 1
    /\ UNCHANGED <<user, email, next_id, req, resp, deleted, inflight>>

\* POST /register
RegisterUser ==
    /\ Idle
    /\ \E username \in RegisterUsernames, password \in RegisterPasswords :
        LET r == handle_register_user([username |-> username,
                                       password |-> password])
        IN  /\ req' = [NoRequest EXCEPT !.op = "register",
                                        !.username = username,
                                        !.password = password]
            /\ resp' = r.resp
            /\ user' = r.user
            /\ UNCHANGED <<email, next_id, now, deleted, inflight>>

\* GET /emails
GetEmails ==
    /\ Idle
    /\ \E start \in IndexArgs, stop \in IndexArgs, recipient_username \in Recipients :
        LET request == [NoRequest EXCEPT !.op = "get_emails",
                                         !.start = start, !.stop = stop,
                                         !.recipient_username = recipient_username]
        IN  \E r \in handle_get_emails(request) :
                /\ req' = request
                /\ resp' = r
                /\ UNCHANGED <<user, email, next_id, now, deleted, inflight>>

\* POST /emails
SendEmail ==
    /\ Idle
    /\ \E message_subject \in Subjects, body \in Bodies,
       sender_username \in Senders, recipient_username \in Senders :
        LET request == [NoRequest EXCEPT !.op = "send_email",
                                         !.message_subject = message_subject,
                                         !.body = body,
                                         !.sender_username = sender_username,
                                         !.recipient_username = recipient_username]
            r == handle_send_email(request)
        IN  /\ r.next_id <= MaxEmails + 1
            /\ req' = request
            /\ resp' = r.resp
            /\ email' = r.email
            /\ next_id' = r.next_id
            /\ UNCHANGED <<user, now, deleted, inflight>>

\* DELETE /emails
DeleteEmail ==
    /\ Idle
    /\ \E email_id \in EmailIds :
        LET r == handle_delete_email(email_id)
        IN  /\ req' = [NoRequest EXCEPT !.op = "delete_email",
                                        !.email_id = email_id]
            /\ resp' = r.resp
            /\ email' = r.email
            /\ deleted' = IF r.resp.status = 200
                          THEN deleted \cup {email_id.i} ELSE deleted
            /\ UNCHANGED <<user, next_id, now, inflight>>

\* GET /emails/<id>
GetEmail ==
    /\ Idle
    /\ \E email_id \in EmailIds :
        /\ req' = [NoRequest EXCEPT !.op = "get_email", !.email_id = email_id]
        /\ resp' = handle_get_email(email_id)
        /\ UNCHANGED <<user, email, next_id, now, deleted, inflight>>

\* Email(db, ...).send(): the entity writes its own row
EmailSend ==
    /\ Idle
    /\ \E body \in Bodies, recipient_username \in Usernames :
        LET e == Email(PyStr("db"), PyStr("Hi"), body, PyStr("u1"),
                       PyStr(recipient_username))
        IN  /\ req' = [NoRequest EXCEPT !.op = "Email.send",
                                        !.message_subject = PyStr("Hi"),
                                        !.body = body,
                                        !.sender_username = PyStr("u1"),
                                        !.recipient_username =
                                            PyStr(recipient_username)]
            /\ IF e.exc # ""
               THEN /\ resp' = Response(0, e.msg, <<>>, NoCalls)
                    /\ UNCHANGED <<email, next_id>>
               ELSE /\ next_id <= MaxEmails
                    /\ resp' = NoResponse
                    /\ email' = InsertEmail(e.val)
                    /\ next_id' = next_id + 1
            /\ UNCHANGED <<user, now, deleted, inflight>>

\* the route returns the handler's (body, status) and the request is over
Reply ==
    /\ ~Idle
    /\ req' = NoRequest
    /\ resp' = NoResponse
    /\ UNCHANGED <<user, email, next_id, now, deleted, inflight>>

Next ==
    \/ Tick
    \/ Reply
    \/ RegisterUser
    \/ GetEmails
    \/ SendEmail
    \/ DeleteEmail
    \/ GetEmail
    \/ EmailSend

Spec == Init /\ [][Next]_vars

(***************************************************************************)
(* The same requests, served while the store fails.                        *)
(***************************************************************************)
\* POST /register, the k-th repository call raising
RegisterUserStoreError ==
    /\ Idle
    /\ \E username \in RegisterUsernames, password \in RegisterPasswords :
        LET data == [username |-> username, password |-> password]
        IN  \E k \in 1..Len(handle_register_user(data).resp.calls) :
                /\ req' = [NoRequest EXCEPT !.op = "register",
                                            !.username = username,
                                            !.password = password,
                                            !.fails = k]
                /\ resp' = handle_register_user_store_error(data, k).resp
                /\ user' = handle_register_user_store_error(data, k).user
                /\ UNCHANGED <<email, next_id, now, deleted, inflight>>

\* GET /emails, the k-th repository call raising
GetEmailsStoreError ==
    /\ Idle
    /\ \E start \in IndexArgs, stop \in IndexArgs, recipient_username \in Recipients :
        LET request == [NoRequest EXCEPT !.op = "get_emails",
                                         !.start = start, !.stop = stop,
                                         !.recipient_username = recipient_username]
        IN  \E n \in handle_get_emails(request) :
            \E k \in 1..Len(n.calls) :
            \E r \in handle_get_emails_store_error(request, k) :
                /\ req' = [request EXCEPT !.fails = k]
                /\ resp' = r
                /\ UNCHANGED <<user, email, next_id, now, deleted, inflight>>

\* POST /emails, the k-th repository call raising
SendEmailStoreError ==
    /\ Idle
    /\ \E message_subject \in Subjects, body \in Bodies,
       sender_username \in Senders, recipient_username \in Senders :
        LET request == [NoRequest EXCEPT !.op = "send_email",
                                         !.message_subject = message_subject,
                                         !.body = body,
                                         !.sender_username = sender_username,
                                         !.recipient_username = recipient_username]
        IN  \E k \in 1..Len(handle_send_email(request).resp.calls) :
                /\ req' = [request EXCEPT !.fails = k]
                /\ resp' = handle_send_email_store_error(request, k).resp
                /\ email' = handle_send_email_store_error(request, k).email
                /\ next_id' = handle_send_email_store_error(request, k).next_id
                /\ UNCHANGED <<user, now, deleted, inflight>>

\* DELETE /emails, the k-th repository call raising
DeleteEmailStoreError ==
    /\ Idle
    /\ \E email_id \in EmailIds :
        \E k \in 1..Len(handle_delete_email(email_id).resp.calls) :
            /\ req' = [NoRequest EXCEPT !.op = "delete_email",
                                        !.email_id = email_id, !.fails = k]
            /\ resp' = handle_delete_email_store_error(email_id, k).resp
            /\ email' = handle_delete_email_store_error(email_id, k).email
            /\ UNCHANGED <<user, next_id, now, deleted, inflight>>

\* GET /emails/<id>, the k-th repository call raising
GetEmailStoreError ==
    /\ Idle
    /\ \E email_id \in EmailIds :
        \E k \in 1..Len(handle_get_email(email_id).calls) :
            /\ req' = [NoRequest EXCEPT !.op = "get_email",
                                        !.email_id = email_id, !.fails = k]
            /\ resp' = handle_get_email_store_error(email_id, k)
            /\ UNCHANGED <<user, email, next_id, now, deleted, inflight>>

NextStoreError ==
    \/ Next
    \/ RegisterUserStoreError
    \/ GetEmailsStoreError
    \/ SendEmailStoreError
    \/ DeleteEmailStoreError
    \/ GetEmailStoreError

SpecStoreError == Init /\ [][NextStoreError]_vars

(***************************************************************************)
(* Two threads serving DELETE /emails at once.  handle_delete_email makes  *)
(* two repository calls, email_exists and delete_email, each a statement   *)
(* of its own that the store runs atomically; another thread's statement   *)
(* may run between them.                                                   *)
(***************************************************************************)
\* self._validate_email_exists(email_id)
DeleteBegin(w) ==
    /\ Idle
    /\ inflight[w].pc = "idle"
    /\ \E email_id \in EmailIds :
        LET v == validate_email_exists(email_id)
        IN  inflight' =
                [inflight EXCEPT ![w] =
                    IF v.exc # ""
                    THEN [NoWork EXCEPT !.pc = "done", !.op = "delete_email",
                                        !.email_id = email_id, !.status = 404,
                                        !.error = v.msg]
                    ELSE [NoWork EXCEPT !.pc = "checked",
                                        !.op = "delete_email",
                                        !.email_id = email_id]]
    /\ UNCHANGED <<user, email, next_id, now, req, resp, deleted>>

\* self._delete_email_from_db(email_id), and the handler's return
DeleteFinish(w) ==
    /\ Idle
    /\ inflight[w].pc = "checked"
    /\ LET d == delete_email_from_db(inflight[w].email_id)
       IN  /\ email' = d.email
           /\ inflight' =
                  [inflight EXCEPT ![w].pc = "done",
                                   ![w].status = IF d.exc = "ValueError"
                                                 THEN 400 ELSE 200,
                                   ![w].error = d.msg,
                                   ![w].rowcount = d.rowcount]
           /\ deleted' = IF d.exc = ""
                         THEN deleted \cup {inflight[w].email_id.i}
                         ELSE deleted
    /\ UNCHANGED <<user, next_id, now, req, resp>>

\* the thread's response is sent
DeleteReply(w) ==
    /\ Idle
    /\ inflight[w].pc = "done"
    /\ inflight' = [inflight EXCEPT ![w] = NoWork]
    /\ UNCHANGED <<user, email, next_id, now, req, resp, deleted>>

NextConcurrentDelete ==
    \/ Tick
    \/ EmailSend
    \/ Reply
    \/ \E w \in Workers : DeleteBegin(w)
    \/ \E w \in Workers : DeleteFinish(w)
    \/ \E w \in Workers : DeleteReply(w)

SpecConcurrentDelete == Init /\ [][NextConcurrentDelete]_vars

(***************************************************************************)
(* Two threads serving POST /register at once.  handle_register_user makes *)
(* two repository calls, user_exists (inside create_user) and              *)
(* register_user, each a statement of its own; another thread's statement  *)
(* may run between them.                                                   *)
(***************************************************************************)
\* user = self.create_user(data)
RegisterBegin(w) ==
    /\ Idle
    /\ inflight[w].pc = "idle"
    /\ \E username \in RegisterUsernames, password \in RegisterPasswords :
        LET c == create_user([username |-> username, password |-> password])
        IN  inflight' =
                [inflight EXCEPT ![w] =
                    IF c.exc # ""
                    THEN [NoWork EXCEPT
                              !.pc = "done", !.op = "register",
                              !.username = username, !.password = password,
                              !.status = RegisterError(c.exc, c.msg, c.calls).status,
                              !.error = RegisterError(c.exc, c.msg, c.calls).error]
                    ELSE [NoWork EXCEPT
                              !.pc = "checked", !.op = "register",
                              !.username = username, !.password = password]]
    /\ UNCHANGED <<user, email, next_id, now, req, resp, deleted>>

\* self._register_user(user), and the handler's return
RegisterFinish(w) ==
    /\ Idle
    /\ inflight[w].pc = "checked"
    /\ inflight[w].op = "register"
    /\ LET r == register_user([username |-> inflight[w].username,
                               password |-> inflight[w].password])
           answer == IF r.exc # "" THEN RegisterError(r.exc, "", NoCalls)
                     ELSE IF r.rowcount <= 0
                     THEN RegisterError("ValueError", "Could not register user.",
                                        NoCalls)
                     ELSE Response(201, "", <<>>, NoCalls)
       IN  /\ user' = r.user
           /\ inflight' = [inflight EXCEPT ![w].pc = "done",
                                           ![w].status = answer.status,
                                           ![w].error = answer.error,
                                           ![w].rowcount = r.rowcount]
    /\ UNCHANGED <<email, next_id, now, req, resp, deleted>>

\* the thread's response is sent
RegisterReply(w) ==
    /\ Idle
    /\ inflight[w].pc = "done"
    /\ inflight[w].op = "register"
    /\ inflight' = [inflight EXCEPT ![w] = NoWork]
    /\ UNCHANGED <<user, email, next_id, now, req, resp, deleted>>

NextConcurrentRegister ==
    \/ \E w \in Workers : RegisterBegin(w)
    \/ \E w \in Workers : RegisterFinish(w)
    \/ \E w \in Workers : RegisterReply(w)

SpecConcurrentRegister == Init /\ [][NextConcurrentRegister]_vars

(***************************************************************************)
(* What the claims speak of, read from the request being served and its    *)
(* response.  A handler leaves the user table alone except on a            *)
(* successful registration, and GET /emails leaves the whole store alone,  *)
(* so in a state that holds the response to GET /emails the store is the   *)
(* one the handler read.                                                   *)
(***************************************************************************)
\* start, stop and recipient_username as handle_get_emails reads them
ReqStart == ArgsGetInt(req.start)

ReqStop == ArgsGetInt(req.stop)

ReqRecipient == ArgsGet(req.recipient_username)

\* the request is a GET /emails that carries both indices as integers
PagedRequest == req.op = "get_emails" /\ IsInt(ReqStart) /\ IsInt(ReqStop)

\* the calls of the response that fetch a page, and those that fetch at all
PageFetches ==
    {k \in 1..Len(resp.calls) : resp.calls[k].fn = "get_indexed_emails_to_user"}

Fetches ==
    {k \in 1..Len(resp.calls) :
        resp.calls[k].fn \in {"get_indexed_emails_to_user",
                              "get_all_emails_to_user"}}

UserLookups == {k \in 1..Len(resp.calls) : resp.calls[k].fn = "user_exists"}

InvalidRange == resp.status = 400 /\ resp.error = "Invalid start or stop index"

Indices == MinIndex..MaxIndex

\* C1: for integers start < stop, get_limit_and_offset returns exactly
\* (stop - start, start); a GET /emails of a registered recipient with such a
\* pair fetches one page with that limit and offset, and every page fetch has
\* limit > 0 and offset = start.
C1_LimitOffset ==
    /\ \A s, e \in Indices :
           s < e => get_limit_and_offset(PyInt(s), PyInt(e))
                        = Return([limit |-> e - s, offset |-> s])
    /\ \A k \in PageFetches :
           /\ PagedRequest
           /\ resp.calls[k].limit > 0
           /\ resp.calls[k].limit = ReqStop.i - ReqStart.i
           /\ resp.calls[k].offset = ReqStart.i
    /\ (PagedRequest /\ ReqStart.i < ReqStop.i /\ user_exists(ReqRecipient))
           => Cardinality(PageFetches) = 1

C1_Witness ==
    /\ PagedRequest
    /\ ReqStart.i = 1
    /\ ReqStop.i = MaxIndex
    /\ resp.status = 200
    /\ \E k \in PageFetches :
           resp.calls[k].limit = MaxIndex - 1 /\ resp.calls[k].offset = 1

\* C2 as stated: a GET /emails with integers start >= stop answers 400 and
\* fetches no page.
C2_Original ==
    (PagedRequest /\ ReqStart.i >= ReqStop.i)
        => resp.status = 400 /\ PageFetches = {}

\* C2 as amended: for integers start >= stop get_limit_and_offset raises
\* ValueError; a GET /emails with such a pair fetches nothing, and answers
\* 400 with the range error when the recipient is a registered user (404
\* when the recipient is not registered, the user being looked up first).
C2_InvalidRange ==
    /\ \A s, e \in Indices :
           s >= e => get_limit_and_offset(PyInt(s), PyInt(e))
                         = Raise("ValueError", "Invalid start or stop index")
    /\ (PagedRequest /\ ReqStart.i >= ReqStop.i)
           => /\ Fetches = {}
              /\ user_exists(ReqRecipient) => InvalidRange
              /\ (Truthy(ReqRecipient) /\ ~user_exists(ReqRecipient))
                     => resp.status = 404

C2_Witness ==
    /\ PagedRequest
    /\ ReqStart.i = ReqStop.i
    /\ user_exists(ReqRecipient)
    /\ WhereRecipient(ReqRecipient) # {}
    /\ InvalidRange
    /\ Fetches = {}

\* C3: a GET /emails whose start or stop is a negative integer fails with the
\* range error, also when stop > start, and no page is fetched with a
\* negative offset.
C3_NegativeIndexRejected ==
    /\ (PagedRequest /\ user_exists(ReqRecipient)
            /\ (ReqStart.i < 0 \/ ReqStop.i < 0))
           => InvalidRange
    /\ \A k \in PageFetches : resp.calls[k].offset >= 0

\* C4: POST /emails with a non-empty subject, sender and recipient, of which
\* the sender or the recipient is not registered, answers 404 and leaves the
\* email table as it was.
SendArgs == fetch_send_args(req)

SendsToOrFromUnknown ==
    /\ req.op = "send_email"
    /\ Truthy(SendArgs.message_subject)
    /\ Truthy(SendArgs.sender_username)
    /\ Truthy(SendArgs.recipient_username)
    /\ \/ ~user_exists(SendArgs.sender_username)
       \/ ~user_exists(SendArgs.recipient_username)

C4_UnknownUserNotSent ==
    [][(Idle /\ SendsToOrFromUnknown')
           => /\ resp'.status = 404
              /\ resp'.error \in {"The recipient does not exist in the database.",
                                  "The sender does not exist in the database."}
              /\ email' = email
              /\ next_id' = next_id]_vars

C4_Witness ==
    /\ SendsToOrFromUnknown
    /\ user_exists(SendArgs.recipient_username)
    /\ ~user_exists(SendArgs.sender_username)
    /\ Truthy(SendArgs.body)
    /\ email # {}
    /\ resp.status = 404

\* C5: POST /emails with a non-empty subject and body from a registered
\* sender to a registered recipient answers 201 and inserts exactly one row
\* that carries the four fields; and an unbounded GET /emails of a registered
\* recipient returns every row stored for that recipient.
ValidSend ==
    /\ req.op = "send_email"
    /\ Truthy(SendArgs.message_subject)
    /\ Truthy(SendArgs.body)
    /\ user_exists(SendArgs.sender_username)
    /\ user_exists(SendArgs.recipient_username)

C5_ValidSendStored ==
    [][/\ (Idle /\ ValidSend')
           => /\ resp'.status = 201
              /\ email \subseteq email'
              /\ Cardinality(email' \ email) = 1
              /\ \A e \in email' \ email :
                     /\ e.message_subject = SendArgs'.message_subject.s
                     /\ e.body = SendArgs'.body.s
                     /\ e.sender_username = SendArgs'.sender_username.s
                     /\ e.recipient_username = SendArgs'.recipient_username.s
       /\ (Idle /\ req'.op = "get_emails" /\ user_exists(ReqRecipient')
                /\ (ReqStart' = PyNone \/ ReqStop' = PyNone))
           => \A e \in WhereRecipient(ReqRecipient') :
                  \E k \in 1..Len(resp'.emails) : resp'.emails[k] = e]_vars

\* C6: once a username is registered, POST /register with that username and
\* any valid password answers 400 "Username already exists." and leaves the
\* user table as it was.
ValidPassword(v) == v.type = "str" /\ Len(v.s) >= 2

C6_UsernameTaken ==
    [][(Idle /\ req'.op = "register" /\ user_exists(req'.username)
             /\ ValidPassword(req'.password))
           => /\ resp'.status = 400
              /\ resp'.error = "Username already exists."
              /\ user' = user]_vars

C6_Witness ==
    /\ req.op = "register"
    /\ resp.status = 400
    /\ resp.error = "Username already exists."
    /\ ValidPassword(req.password)
    /\ \E u \in user : u.username = req.username.s /\ u.password # req.password.s

InboxSize == Cardinality(WhereRecipient(ReqRecipient))

UnboundedInbox ==
    handle_get_emails([req EXCEPT !.start = NoArg, !.stop = NoArg])

WindowInInbox ==
    /\ PagedRequest
    /\ user_exists(ReqRecipient)
    /\ 0 <= ReqStart.i
    /\ ReqStart.i < ReqStop.i
    /\ ReqStop.i <= InboxSize

C8_PageOfInbox ==
    WindowInInbox
        => /\ resp.status = 200
           /\ Len(resp.emails) = ReqStop.i - ReqStart.i
           /\ \A all \in UnboundedInbox :
                  /\ all.status = 200
                  /\ \A k \in 1..Len(resp.emails) :
                         \E j \in 1..Len(all.emails) :
                             all.emails[j] = resp.emails[k]

C8_Witness ==
    /\ WindowInInbox
    /\ ReqStart.i = 1
    /\ ReqStop.i = 2
    /\ InboxSize = MaxEmails
    /\ Len(resp.emails) = 1

\* C9: a GET /emails whose recipient_username is empty or absent answers 400
\* with the recipient error whatever start and stop are, and neither looks
\* the user up nor fetches.
MissingRecipient ==
    /\ resp.status = 400
    /\ resp.error = "Invalid value for 'recipient_username'. Must be a string."

C9_MissingRecipient ==
    (req.op = "get_emails" /\ ~Truthy(ReqRecipient))
        => /\ MissingRecipient
           /\ UserLookups = {}
           /\ Fetches = {}
           /\ resp.calls = NoCalls
           /\ resp.emails = <<>>

C9_Witness ==
    /\ req.op = "get_emails"
    /\ req.recipient_username = Absent
    /\ PagedRequest
    /\ ReqStart.i < ReqStop.i
    /\ email # {}
    /\ user # {}
    /\ MissingRecipient

\* C10: a GET /emails whose recipient_username is non-empty and not a
\* registered user answers 404 and returns no rows, whatever rows are stored.
C10_UnknownRecipient ==
    (req.op = "get_emails" /\ Truthy(ReqRecipient) /\ ~user_exists(ReqRecipient))
        => /\ resp.status = 404
           /\ resp.error = "User not found in database."
           /\ resp.emails = <<>>
           /\ Fetches = {}

C10_Witness ==
    /\ req.op = "get_emails"
    /\ Truthy(ReqRecipient)
    /\ ~user_exists(ReqRecipient)
    /\ user # {}
    /\ \E e \in email : e.recipient_username # ReqRecipient.s
    /\ \E e \in email : e.recipient_username = ReqRecipient.s
    /\ resp.status = 404

\* C11: for a registered recipient r, a GET /emails without start or without
\* stop answers 200 and returns exactly the stored rows whose recipient is r,
\* each once: none addressed to another user, none missing, and the empty
\* sequence when no row is addressed to r.
UnboundedRequest ==
    req.op = "get_emails" /\ (ReqStart = PyNone \/ ReqStop = PyNone)

RowsAddressedTo(name) == {e \in email : e.recipient_username = name}

C11_WholeInbox ==
    (UnboundedRequest /\ user_exists(ReqRecipient))
        => /\ resp.status = 200
           /\ {resp.emails[k] : k \in 1..Len(resp.emails)}
                  = RowsAddressedTo(ReqRecipient.s)
           /\ Len(resp.emails) = Cardinality(RowsAddressedTo(ReqRecipient.s))

C11_Witness ==
    /\ UnboundedRequest
    /\ req.stop # NoArg
    /\ user_exists(ReqRecipient)
    /\ resp.status = 200
    /\ Len(resp.emails) >= 1
    /\ Cardinality(email) > Len(resp.emails)

\* C12: once DELETE has succeeded for an id, no GET /emails returns a row of
\* that id, the row is not stored, and every later DELETE or GET of that id
\* answers 404.
C12_DeletedStaysDeleted ==
    [][/\ req'.op = "get_emails"
              => \A k \in 1..Len(resp'.emails) :
                     resp'.emails[k] \in email' /\ resp'.emails[k].id \notin deleted'
       /\ (req'.op = "get_email" /\ req'.email_id.type = "int"
                /\ req'.email_id.i \in deleted')
              => resp'.emails = <<>>
       /\ \A e \in email' : e.id \notin deleted'
       /\ (Idle /\ req'.op \in {"delete_email", "get_email"}
                /\ req'.email_id.type = "int" /\ req'.email_id.i \in deleted)
              => resp'.status = 404]_vars

C12_Witness ==
    /\ req.op = "get_email"
    /\ req.email_id.type = "int"
    /\ req.email_id.i \in deleted
    /\ email # {}
    /\ resp.status = 404

\* C13: DELETE with an id for which no row is stored, the id -1 included,
\* answers 404 and deletes nothing.
C13_DeleteUnknownId ==
    [][(Idle /\ req'.op = "delete_email"
             /\ \A e \in email : req'.email_id.type = "int"
                                     => e.id # req'.email_id.i)
           => /\ resp'.status = 404
              /\ email' = email
              /\ deleted' = deleted]_vars

C13_Witness ==
    /\ req.op = "delete_email"
    /\ req.email_id = PyInt(0 - 1)
    /\ email # {}
    /\ resp.status = 404

\* C14 as stated: DELETE /emails with an id that is None, not an integer or
\* negative answers 400 before any repository call is made.
InvalidEmailId(email_id) ==
    \/ email_id = PyNone
    \/ email_id.type # "int"
    \/ email_id.type = "int" /\ email_id.i < 0

StoredEmail(email_id) ==
    {e \in email : email_id.type = "int" /\ e.id = email_id.i}

C15_StoredRowReturned ==
    (req.op = "get_email" /\ StoredEmail(req.email_id) # {})
        => /\ resp.status = 200
           /\ Len(resp.emails) = 1
           /\ resp.emails[1] \in StoredEmail(req.email_id)

\* C16: POST /register with an empty or absent username or password answers
\* with a missing-field error whatever the other field holds; the length
\* errors are met only when both fields are non-empty.
EmptyField(v) == v \in {Absent, PyNone, PyStr("")}

MissingFieldErrors ==
    {"A user must have a username.", "A user must have a password.",
     "Missing required field: 'username'", "Missing required field: 'password'"}

C16_MissingFieldFirst ==
    (req.op = "register" /\ (EmptyField(req.username) \/ EmptyField(req.password)))
        => /\ resp.status = 400
           /\ resp.error \in MissingFieldErrors

\* C17: POST /emails runs the entity's is_valid before the insert, so a
\* message between registered users whose subject or body is longer than
\* the entity allows is rejected with is_valid's error and is not
\* inserted; every stored email's subject and body are non-empty and
\* within the entity's bounds.
TooLong(request) ==
    \/ request.message_subject.type = "str"
          /\ Len(request.message_subject.s) > MaxSubjectLen
    \/ request.body.type = "str" /\ Len(request.body.s) > MaxBodyLen

C17_ValidatedBeforeInsert ==
    /\ \A e \in email :
           /\ e.message_subject # "" /\ Len(e.message_subject) <= MaxSubjectLen
           /\ e.body # "" /\ Len(e.body) <= MaxBodyLen
    /\ (/\ req.op = "send_email"
        /\ TooLong(req)
        /\ Truthy(req.body)
        /\ user_exists(req.sender_username)
        /\ user_exists(req.recipient_username))
           => /\ resp.status = 400
              /\ resp.error = is_valid([message_subject |-> req.message_subject,
                                         body |-> req.body]).msg
              /\ \A k \in 1..Len(resp.calls) : resp.calls[k].fn # "send_email"

\* C19: in every handler a store failure raised by a repository call is
\* caught and answered with status 500 and a message that does not carry
\* the exception; no handler lets the exception escape.
GenericErrors ==
    {"An error occurred while fetching emails.",
     "There was an error when registering a user.",
     "An unexpected error occurred"}

C19_StoreFailureIs500 ==
    req.fails > 0 => /\ resp.status = 500
                     /\ resp.error \in GenericErrors

\* C18: a handler that answers 400, 404 or 500 leaves the user table and
\* the email table as they were, and the same request served again in the
\* state it leaves is answered with the same error.
Outcomes(request) ==
    IF request.op = "register"
    THEN LET data == [username |-> request.username,
                      password |-> request.password]
         IN  IF request.fails = 0
             THEN {handle_register_user(data).resp}
             ELSE {handle_register_user_store_error(data, request.fails).resp}
    ELSE IF request.op = "get_emails"
    THEN IF request.fails = 0
         THEN handle_get_emails(request)
         ELSE handle_get_emails_store_error(request, request.fails)
    ELSE IF request.op = "send_email"
    THEN IF request.fails = 0
         THEN {handle_send_email(request).resp}
         ELSE {handle_send_email_store_error(request, request.fails).resp}
    ELSE IF request.op = "delete_email"
    THEN IF request.fails = 0
         THEN {handle_delete_email(request.email_id).resp}
         ELSE {handle_delete_email_store_error(request.email_id,
                                               request.fails).resp}
    ELSE IF request.op = "get_email"
    THEN IF request.fails = 0
         THEN {handle_get_email(request.email_id)}
         ELSE {handle_get_email_store_error(request.email_id, request.fails)}
    ELSE {}

\* the request that was answered with an error, served in the state the
\* handler has left, is answered with that error
SameErrorAgain ==
    resp.status \in {400, 404, 500} => resp \in Outcomes(req)

C18_ErrorsChangeNothing ==
    /\ [][(Idle /\ resp'.status \in {400, 404, 500})
              => /\ user' = user
                 /\ email' = email]_vars
    /\ []SameErrorAgain

C18_Witness ==
    /\ req.op = "delete_email"
    /\ StoredEmail(req.email_id) # {}
    /\ user # {}
    /\ resp.status = 500

\* C20 as stated: of two DELETE /emails for the same stored id that both
\* pass the existence check before either deletes, one answers 200 and the
\* other, whose DELETE changed no row, answers 500.
RacedDeletes ==
    /\ \A w \in Workers : inflight[w].pc = "done" /\ inflight[w].status # 404
    /\ \A w, v \in Workers : inflight[w].email_id = inflight[v].email_id

C20_Original ==
    RacedDeletes =>
        \E w, v \in Workers : /\ inflight[w].status = 200
                              /\ inflight[v].status = 500

\* C20, corrected: of two such requests one answers 200, having deleted
\* the row, and the other, whose DELETE changed no row, answers 400 with
\* "The email could not be deleted."; the row is removed once.
C20_RacedDeleteIs400 ==
    RacedDeletes =>
        /\ \E w, v \in Workers :
               /\ inflight[w].status = 200
               /\ inflight[w].rowcount = 1
               /\ inflight[v].status = 400
               /\ inflight[v].error = "The email could not be deleted."
               /\ inflight[v].rowcount = 0
        /\ \A w \in Workers : ~email_exists(inflight[w].email_id)

C20_Witness ==
    /\ RacedDeletes
    /\ inflight[1].status = 400
    /\ email # {}

\* C21: under any interleaving of two POST /register for the same valid
\* username, the user table never holds two users of that username, one
\* request answers 201 and the other answers 400 "Username already
\* exists.", never 500.
BothRegistered ==
    /\ \A w \in Workers : /\ inflight[w].pc = "done"
                           /\ inflight[w].op = "register"
                           /\ ~TooShort(inflight[w].username)
                           /\ ~TooShort(inflight[w].password)
    /\ \A w, v \in Workers : inflight[w].username = inflight[v].username
    /\ \E w \in Workers : inflight[w].status = 201

C21_OneRegistersOtherTaken ==
    /\ \A name \in Usernames :
           Cardinality({u \in user : u.username = name}) <= 1
    /\ BothRegistered =>
           \E w, v \in Workers : /\ inflight[w].status = 201
                                 /\ inflight[v].status = 400
                                 /\ inflight[v].error = "Username already exists."

====
